---- MODULE Spec2Model ----
(***************************************************************************)
(* Game session lifecycle of the SpeakAce backend: POST /start-session,    *)
(* POST /end-session/:sessionId (routes/games.js), the GameSession model   *)
(* (calculatePerformance, endSession) and the User model (updateStats,     *)
(* checkAchievements).                                                     *)
(*                                                                         *)
(* Every request handler is an async function; between two awaits its code *)
(* runs without interruption, so each action below is one such stretch,    *)
(* ending with the database read or write it awaits.  A Mongoose document  *)
(* is a private copy of the persisted record: save() writes the paths the  *)
(* handler modified, selected by _id only.                                 *)
(*                                                                         *)
(* Further parts: the progress routes (routes/progress.js) and GET /stats  *)
(* over the user's completed sessions, DELETE /account among the user's    *)
(* other requests, and the decoding of a provider's text by the AI         *)
(* sub-analyses (services/ai).                                             *)
(***************************************************************************)
EXTENDS Integers, Sequences, FiniteSets, TLC

(* ---------------------------------------------------------------- bounds *)
MaxSessions == 2
NumRequests == 2
MaxTicks == 1
MaxWords == 1
MaxHistory == 4
MaxTextLen == 3
MaxClock == 12
LongTick == 8

(* ------------------------------------------------------ JavaScript values *)
\* JavaScript's undefined and NaN, as integers no payload of the model uses.
Undefined == -9999
NaN == -9998

\* One clock tick in milliseconds (Date values are milliseconds).
TickMs == 500

\* The larger of two numbers.
Max(a, b) == IF a > b THEN a ELSE b

\* x || 0
OrZero(x) == IF x = Undefined \/ x = NaN \/ x = 0 THEN 0 ELSE x

\* Math.round(p / q) for q > 0: the nearest integer, halves towards +infinity.
MathRound(p, q) == (2 * p + q) \div (2 * q)

\* a > b in JavaScript: false when either side is undefined or NaN.
JsGreater(a, b) ==
  IF a = Undefined \/ a = NaN \/ b = Undefined \/ b = NaN THEN FALSE ELSE a > b

GameTypes == {"rapidFire", "conductor", "tripleStep"}
UserIds == {"u1"}
\* The authenticated users; "u2" owns no session.
Callers == {"u1", "u2"}
SessionIds == 1..MaxSessions
Requests == 1..NumRequests

(* ------------------------------------------------------ GameSession model *)
\* Schema defaults of the performance sub-document.
DefaultPerformance ==
  [score |-> 0, accuracy |-> 0, speed |-> 0, energyConsistency |-> 0,
   wordIntegration |-> 0, totalPrompts |-> 0, completedPrompts |-> 0]

\* Schema defaults of aiAnalysis.
EmptyAnalysis ==
  [speechClarity |-> 0, energyLevel |-> 0, coherence |-> 0, confidence |-> 0,
   fluency |-> 0, overallRating |-> 0, feedback |-> <<>>, strengths |-> <<>>,
   areasForImprovement |-> <<>>]

\* gameSpecificData of a session no end-session request has touched: the
\* nested objects exist, their arrays are empty and their scalars undefined.
\* prompts, energyTransitions and words are modelled by their lengths.  The
\* schema has no path for totalPrompts, completedResponses, responseTime,
\* consistency, wordsAttempted, successfulIntegrations or averageTime: a
\* document reads them as undefined whatever was assigned to them.
EmptyGameSpecificData ==
  [rapidFire |-> [responseTime |-> Undefined, totalPrompts |-> Undefined,
                  completedResponses |-> Undefined, prompts |-> 0],
   conductor |-> [consistency |-> Undefined, energyTransitions |-> 0],
   tripleStep |-> [wordsAttempted |-> Undefined,
                   successfulIntegrations |-> Undefined,
                   averageTime |-> Undefined, words |-> 0]]

NoSession == [exists |-> FALSE]
\* A record deleteMany removed: its _id is never given to another session.
DeletedSession == [exists |-> FALSE, deleted |-> TRUE]

\* new GameSession({userId, gameType, sessionData: {startTime: new Date()}})
NewSession(userId, gameType, startTime) ==
  [exists |-> TRUE, userId |-> userId, gameType |-> gameType,
   sessionData |-> [startTime |-> startTime, endTime |-> Undefined,
                    duration |-> Undefined],
   performance |-> DefaultPerformance,
   aiAnalysis |-> EmptyAnalysis,
   gameSpecificData |-> EmptyGameSpecificData,
   isCompleted |-> FALSE]

\* The sessionDuration virtual.
sessionDuration(doc) ==
  IF doc.sessionData.endTime # Undefined /\ doc.sessionData.startTime # Undefined
  THEN MathRound(doc.sessionData.endTime - doc.sessionData.startTime, 1000)
  ELSE 0

\* The first guard of calculatePerformance.
PerformanceAlreadySet(doc) == doc.performance.score # Undefined

\* The per-game-type branch of calculatePerformance.
ComputedPerformance(doc) ==
  LET p == doc.performance
      g == doc.gameSpecificData
  IN CASE doc.gameType = "rapidFire" ->
            LET acc == IF JsGreater(g.rapidFire.totalPrompts, 0)
                       THEN MathRound(OrZero(g.rapidFire.completedResponses) * 100,
                                      g.rapidFire.totalPrompts)
                       ELSE 0
            IN [p EXCEPT !.totalPrompts = OrZero(g.rapidFire.totalPrompts),
                         !.completedPrompts = OrZero(g.rapidFire.completedResponses),
                         !.accuracy = acc,
                         !.speed = OrZero(g.rapidFire.responseTime),
                         !.score = acc]
       [] doc.gameType = "conductor" ->
            [p EXCEPT !.energyConsistency = OrZero(g.conductor.consistency),
                      !.accuracy = OrZero(g.conductor.consistency),
                      !.score = OrZero(g.conductor.consistency)]
       [] doc.gameType = "tripleStep" ->
            LET acc == IF JsGreater(g.tripleStep.wordsAttempted, 0)
                       THEN MathRound(OrZero(g.tripleStep.successfulIntegrations) * 100,
                                      g.tripleStep.wordsAttempted)
                       ELSE 0
            IN [p EXCEPT !.accuracy = acc,
                         !.wordIntegration = acc,
                         !.speed = OrZero(g.tripleStep.averageTime),
                         !.score = acc]

\* gameSessionSchema.methods.calculatePerformance
calculatePerformance(doc) ==
  IF PerformanceAlreadySet(doc)
  THEN doc
  ELSE LET c == ComputedPerformance(doc)
       IN [doc EXCEPT !.performance =
             [c EXCEPT !.score = OrZero(c.score),
                       !.accuracy = OrZero(c.accuracy),
                       !.speed = OrZero(c.speed)]]

\* gameSessionSchema.methods.endSession, up to the save it returns.
endSession(doc, now) ==
  LET ended == [doc EXCEPT !.sessionData.endTime = now]
      timed == [ended EXCEPT !.sessionData.duration = sessionDuration(ended)]
  IN calculatePerformance([timed EXCEPT !.isCompleted = TRUE])

(* --------------------------------------- POST /end-session: request body *)
\* req.body.performance: absent, or the values the client computed (nothing
\* validates them: fields may be missing, values may exceed 100).
ScoredPerformanceBodies ==
  { [present |-> FALSE],
    [present |-> TRUE, score |-> 40, accuracy |-> Undefined, speed |-> 3],
    [present |-> TRUE, score |-> 150, accuracy |-> 55, speed |-> Undefined] }
PerformanceBodies ==
  ScoredPerformanceBodies \cup
  { [present |-> TRUE, score |-> Undefined, accuracy |-> 55, speed |-> Undefined] }

\* req.body.gameSpecificData: absent (or without the sub-record of the
\* session's game type), or the raw telemetry of one game.
RawGameSpecificBodies ==
  { [present |-> TRUE, gameType |-> "rapidFire", totalPrompts |-> 10,
     completedResponses |-> 7, responseTime |-> 4],
    [present |-> TRUE, gameType |-> "conductor", consistency |-> 80],
    [present |-> TRUE, gameType |-> "tripleStep", wordsAttempted |-> 6,
     successfulIntegrations |-> 5, averageTime |-> 2, words |-> MaxWords] }
GameSpecificBodies ==
  RawGameSpecificBodies \cup
  { [present |-> FALSE],
    [present |-> TRUE, gameType |-> "rapidFire", totalPrompts |-> Undefined,
     completedResponses |-> Undefined, responseTime |-> Undefined],
    [present |-> TRUE, gameType |-> "tripleStep", wordsAttempted |-> 3,
     successfulIntegrations |-> 2, averageTime |-> Undefined, words |-> 0],
    [present |-> TRUE, gameType |-> "rapidFire", totalPrompts |-> 0,
     completedResponses |-> 0, responseTime |-> 0],
    [present |-> TRUE, gameType |-> "tripleStep", wordsAttempted |-> 0,
     successfulIntegrations |-> 0, averageTime |-> 0, words |-> 0] }

\* gameSession.performance = { score: performance.score || 0, ... }: the nested
\* object is replaced, so the paths the literal does not name become undefined.
SetPerformance(doc, performance) ==
  [doc EXCEPT !.performance =
     [score |-> OrZero(performance.score),
      accuracy |-> OrZero(performance.accuracy),
      speed |-> OrZero(performance.speed),
      energyConsistency |-> Undefined, wordIntegration |-> Undefined,
      totalPrompts |-> Undefined, completedPrompts |-> Undefined]]

\* The switch on gameSession.gameType that assigns the raw telemetry.  The
\* schema is strict: of the keys of the assigned objects only topic and words
\* are paths of the schema, the others are dropped by the assignment; the
\* arrays the objects do not name become empty.
SetGameSpecificData(doc, data) ==
  IF ~data.present THEN doc
  ELSE CASE doc.gameType = "rapidFire" ->
              [doc EXCEPT !.gameSpecificData.rapidFire =
                 [EmptyGameSpecificData.rapidFire EXCEPT !.prompts = 0]]
         [] doc.gameType = "tripleStep" ->
              [doc EXCEPT !.gameSpecificData.tripleStep =
                 [EmptyGameSpecificData.tripleStep EXCEPT !.words = data.words]]
         [] doc.gameType = "conductor" ->
              [doc EXCEPT !.gameSpecificData.conductor =
                 [EmptyGameSpecificData.conductor EXCEPT !.energyTransitions = 0]]

\* Lines 135-197 of the handler on the document findOne returned: the two
\* assignments, then endSession() up to its save.
CompletedDocument(doc, performance, data, now) ==
  endSession(SetGameSpecificData(SetPerformance(doc, performance), data), now)

\* HTTP statuses of the handler's exits.
StatusOk == 200
StatusNotFound == 404
StatusAlreadyCompleted == 400
StatusServerError == 500

\* findOne selecting by _id alone.
NotFoundByIdOnly(found, userId) == ~found.exists
\* The guards after findOne: the HTTP status of the early return, 0 to go on.
NotFound(found, userId) == ~found.exists \/ found.userId # userId
\* The guard dropped: a completed session is ended again.
AlreadyCompletedUnchecked(found) == FALSE
AlreadyCompleted(found) == found.isCompleted
FindOneStatus(found, userId) ==
  IF NotFound(found, userId) THEN StatusNotFound
  ELSE IF AlreadyCompleted(found) THEN StatusAlreadyCompleted
  ELSE 0

(* ------------------------------------------------- provider-text decoding *)
\* The text of a provider reply, as the pieces the decoders tell apart: the
\* braces, the pair "coherenceScore": 90, the words coherence and adherence,
\* the numbers 60 and 0, and any other word.
Tokens == {"{", "}", "score", "coherence", "adherence", "60", "0", "text"}
\* response.choices[0].message.content is null.
NullContent == <<"null">>
Texts == UNION {[1..n -> Tokens] : n \in 0..MaxTextLen} \cup {NullContent}

Parsers ==
  {"parseCoherenceAnalysis", "parseWordIntegrationAnalysis",
   "parseRapidFireAnalysis", "parseTransitionAnalysis", "parseBreatheCueAnalysis"}

\* analysisText.match(/\{[\s\S]*\}/): from the first { to the last }, <<>>
\* when there is no match.
BraceMatch(text) ==
  LET opens == {i \in 1..Len(text) : text[i] = "{"}
      closes == {i \in 1..Len(text) : text[i] = "}"}
  IN IF opens = {} \/ closes = {} THEN <<>>
     ELSE LET a == CHOOSE i \in opens : \A j \in opens : i <= j
              b == CHOOSE i \in closes : \A j \in closes : j <= i
          IN IF a < b THEN SubSeq(text, a, b) ELSE <<>>

\* JSON.parse: the object, or a SyntaxError.
JsonParse(matched) ==
  IF matched = <<"{", "}">>
  THEN [ok |-> TRUE, coherenceScore |-> Undefined]
  ELSE IF matched = <<"{", "score", "}">>
       THEN [ok |-> TRUE, coherenceScore |-> 90]
       ELSE [ok |-> FALSE, coherenceScore |-> Undefined]

\* The digits a token holds.
Digits(token) ==
  CASE token = "60" -> 60 [] token = "0" -> 0 [] token = "score" -> 90
    [] OTHER -> Undefined

\* text.match(/word.*?(\d+)/i)?.[1]: the first number at or after the first
\* occurrence of the word.
NumberAfter(text, words) ==
  LET starts == {i \in 1..Len(text) : text[i] \in words}
  IN IF starts = {} THEN Undefined
     ELSE LET a == CHOOSE i \in starts : \A j \in starts : i <= j
              nums == {i \in a..Len(text) : Digits(text[i]) # Undefined}
          IN IF nums = {} THEN Undefined
             ELSE Digits(text[CHOOSE i \in nums : \A j \in nums : i <= j])

\* parseInt(x) || 75
ParseIntOr75(x) == IF x = Undefined \/ x = 0 THEN 75 ELSE x

fallbackCoherenceParsing(text) ==
  [kind |-> "regex",
   coherenceScore |-> ParseIntOr75(NumberAfter(text, {"coherence", "score"})),
   topicAdherence |-> ParseIntOr75(NumberAfter(text, {"adherence"}))]

\* getDefaultCoherenceAnalysis and the defaults of the other decoders, which
\* carry neither coherenceScore nor topicAdherence.
DefaultDecoded(parser) ==
  IF parser = "parseCoherenceAnalysis"
  THEN [kind |-> "default", coherenceScore |-> 75, topicAdherence |-> 75]
  ELSE [kind |-> "default", coherenceScore |-> Undefined, topicAdherence |-> Undefined]

ParsedObject(matched) ==
  [kind |-> "object", coherenceScore |-> JsonParse(matched).coherenceScore,
   topicAdherence |-> Undefined]
ThrownDecoded == [kind |-> "throws", coherenceScore |-> Undefined,
                  topicAdherence |-> Undefined]

\* parseCoherenceAnalysis: the catch block calls fallbackCoherenceParsing on
\* the same text, so a null text throws out of the decoder.
parseCoherenceAnalysis(text) ==
  IF text = NullContent THEN ThrownDecoded
  ELSE IF BraceMatch(text) # <<>> /\ JsonParse(BraceMatch(text)).ok
       THEN ParsedObject(BraceMatch(text))
       ELSE fallbackCoherenceParsing(text)

\* parseWordIntegrationAnalysis, parseRapidFireAnalysis, parseTransitionAnalysis,
\* parseBreatheCueAnalysis: the object, else the decoder's default.
parseOrDefault(parser, text) ==
  IF text = NullContent THEN DefaultDecoded(parser)
  ELSE IF BraceMatch(text) # <<>> /\ JsonParse(BraceMatch(text)).ok
       THEN ParsedObject(BraceMatch(text))
       ELSE DefaultDecoded(parser)

Parse(parser, text) ==
  IF parser = "parseCoherenceAnalysis" THEN parseCoherenceAnalysis(text)
  ELSE parseOrDefault(parser, text)

\* The sub-analysis around the decoder: its catch returns the default.
SubAnalysis(parser, text) ==
  IF Parse(parser, text).kind = "throws" THEN DefaultDecoded(parser)
  ELSE Parse(parser, text)

(* ------------------------------------------------------ AI analysis step *)
\* What one call to the provider (openai.chat.completions.create) does: it
\* throws, returns text holding no JSON object, or returns a JSON object that
\* carries the fields read by the caller or lacks them.
ProviderReplies ==
  { [kind |-> "throws", success |-> FALSE, coherenceScore |-> Undefined],
    [kind |-> "text", success |-> FALSE, coherenceScore |-> Undefined],
    [kind |-> "json", success |-> TRUE, coherenceScore |-> 90],
    [kind |-> "json", success |-> FALSE, coherenceScore |-> Undefined] }

\* getCoherenceAnalysisService / getEnergyDetectionService return the service,
\* or a literal fallback object when the services were never initialised.
ServiceStates == {"ready", "fallback"}

\* a.success of CoherenceAnalysisService.analyzeWordIntegration: the parsed
\* JSON object's own field; getDefaultWordIntegrationAnalysis (provider threw,
\* or no JSON in the text) has no success field.  The fallback object answers
\* { success: true, score: 75 }.
WordIntegrationSuccess(service, reply) ==
  IF service = "fallback" THEN TRUE
  ELSE reply.kind = "json" /\ reply.success

\* t.success of EnergyDetectionService.analyzeEnergyTransition:
\* getDefaultTransitionAnalysis has transitionSuccess, not success.
EnergyTransitionSuccess(service, reply) ==
  IF service = "fallback" THEN TRUE
  ELSE reply.kind = "json" /\ reply.success

\* coherenceScore of CoherenceAnalysisService.analyzeSpeechCoherence:
\* getDefaultCoherenceAnalysis when the provider throws, fallbackCoherenceParsing
\* when the text holds no JSON object (no number found: 75), else the parsed
\* object's field.
SpeechCoherenceScore(service, reply) ==
  IF service = "fallback" THEN 75
  ELSE IF reply.kind = "throws" THEN 75
  ELSE IF reply.kind = "text" THEN 75
  ELSE reply.coherenceScore

\* Math.round((a + b) / 2), NaN when an operand is undefined or NaN.
RoundedMean(a, b) ==
  IF a = Undefined \/ a = NaN \/ b = Undefined \/ b = NaN THEN NaN
  ELSE MathRound(a + b, 2)

\* getDefaultAnalysis()
getDefaultAnalysis ==
  [speechClarity |-> 75, energyLevel |-> 75, coherence |-> 75, confidence |-> 75,
   fluency |-> 75, overallRating |-> 75,
   strengths |-> <<"Good effort", "Game completion">>,
   areasForImprovement |-> <<"Continue practicing", "Focus on improvement areas">>,
   feedback |-> <<[type |-> "positive",
                   message |-> "Good effort in completing the exercise"],
                  [type |-> "suggestion",
                   message |-> "Continue practicing to improve your skills"]>>]

\* The number of i in 1..n with ok[i].
RECURSIVE CountTrue(_, _)
CountTrue(ok, n) ==
  IF n = 0 THEN 0 ELSE CountTrue(ok, n - 1) + (IF ok[n] THEN 1 ELSE 0)

\* analyzeRapidFireSession: end-session stores gameSpecificData.rapidFire
\* without prompts, so rapidFire?.prompts?.length is 0 for every session.
analyzeRapidFireSession(doc) == getDefaultAnalysis

\* analyzeConductorSession; replies[i] is the provider's reply for transition i.
analyzeConductorSession(doc, service, replies) ==
  LET n == doc.gameSpecificData.conductor.energyTransitions
  IN IF n = 0 THEN getDefaultAnalysis
     ELSE LET successfulTransitions ==
                CountTrue([i \in 1..n |-> EnergyTransitionSuccess(service, replies[i])], n)
              energyConsistency == MathRound(successfulTransitions * 100, n)
              overallRating == RoundedMean(energyConsistency, 75)
          IN [speechClarity |-> overallRating, energyLevel |-> energyConsistency,
              coherence |-> 75, confidence |-> overallRating,
              fluency |-> overallRating, overallRating |-> overallRating,
              strengths |-> <<"Good energy awareness", "Willingness to adapt">>,
              areasForImprovement |-> <<"Energy consistency", "Smooth transitions">>,
              feedback |-> <<[type |-> "positive",
                              message |-> "Good energy modulation practice"],
                             [type |-> "improvement",
                              message |-> "Focus on smooth energy transitions"]>>]

\* analyzeTripleStepSession; replies[i] is the provider's reply for word i,
\* coherenceReply its reply to analyzeSpeechCoherence.
analyzeTripleStepSession(doc, service, replies, coherenceReply) ==
  LET n == doc.gameSpecificData.tripleStep.words
  IN IF n = 0 THEN getDefaultAnalysis
     ELSE LET successfulIntegrations ==
                CountTrue([i \in 1..n |-> WordIntegrationSuccess(service, replies[i])], n)
              integrationSuccess == MathRound(successfulIntegrations * 100, n)
              coherenceScore == SpeechCoherenceScore(service, coherenceReply)
              overallRating == RoundedMean(integrationSuccess, coherenceScore)
          IN [speechClarity |-> overallRating, energyLevel |-> 75,
              coherence |-> coherenceScore, confidence |-> overallRating,
              fluency |-> overallRating, overallRating |-> overallRating,
              strengths |-> <<"Good word integration", "Topic focus">>,
              areasForImprovement |-> <<"Natural integration", "Flow preservation">>,
              feedback |-> <<[type |-> "positive",
                              message |-> "Good word integration practice"],
                             [type |-> "improvement",
                              message |-> "Focus on natural word weaving"]>>]

\* The switch on gameSession.gameType inside the handler's inner try.
Analyze(doc, service, replies, coherenceReply) ==
  CASE doc.gameType = "rapidFire" -> analyzeRapidFireSession(doc)
    [] doc.gameType = "conductor" -> analyzeConductorSession(doc, service, replies)
    [] doc.gameType = "tripleStep" ->
         analyzeTripleStepSession(doc, service, replies, coherenceReply)

\* The number of provider calls the analysis of doc makes per item list.
AnalysisItems(doc) ==
  CASE doc.gameType = "rapidFire" -> 0
    [] doc.gameType = "conductor" -> doc.gameSpecificData.conductor.energyTransitions
    [] doc.gameType = "tripleStep" -> doc.gameSpecificData.tripleStep.words

\* gameSession.save() rejects a document whose Number path was set to NaN
\* (the schema's aiAnalysis fields are Numbers); undefined is stored as absent.
AnalysisStorable(a) == a.overallRating # NaN

(* -------------------------------------------------------------- User model *)
\* A rational number num / den, kept in lowest terms by its constructors.
RECURSIVE Gcd(_, _)
Gcd(a, b) == IF b = 0 THEN a ELSE Gcd(b, a % b)
Rational(num, den) ==
  LET g == Gcd(IF num < 0 THEN -num ELSE num, den)
  IN [num |-> num \div g, den |-> den \div g]

\* Schema defaults of stats and achievements.
DefaultStats ==
  [totalGamesPlayed |-> 0, totalTimeSpent |-> 0,
   averageScore |-> Rational(0, 1),
   bestScores |-> [rapidFire |-> 0, conductor |-> 0, tripleStep |-> 0],
   streaks |-> [current |-> 0, longest |-> 0],
   averageConfidence |-> Rational(0, 1)]
DefaultUser == [stats |-> DefaultStats, achievements |-> <<>>]

\* updateStats keeping the last score of the game type, not the best one.
updateStatsLastScore(user, gameType, score, duration) ==
  LET st == user.stats
      bestScores == [st.bestScores EXCEPT ![gameType] = score]
      totalScore == bestScores.rapidFire + bestScores.conductor + bestScores.tripleStep
  IN [user EXCEPT !.stats =
        [st EXCEPT !.totalGamesPlayed = st.totalGamesPlayed + 1,
                   !.totalTimeSpent = st.totalTimeSpent + duration,
                   !.bestScores = bestScores,
                   !.averageScore = Rational(totalScore, Cardinality(DOMAIN bestScores)),
                   !.averageConfidence =
                      Rational(st.averageConfidence.num * 100 + score * st.averageConfidence.den,
                               st.averageConfidence.den * 200)]]
\* updateStats also counting the game into the current streak.
updateStatsCountingStreak(user, gameType, score, duration) ==
  LET st == user.stats
      best == IF score > st.bestScores[gameType] THEN score ELSE st.bestScores[gameType]
      bestScores == [st.bestScores EXCEPT ![gameType] = best]
      totalScore == bestScores.rapidFire + bestScores.conductor + bestScores.tripleStep
  IN [user EXCEPT !.stats =
        [st EXCEPT !.totalGamesPlayed = st.totalGamesPlayed + 1,
                   !.totalTimeSpent = st.totalTimeSpent + duration,
                   !.bestScores = bestScores,
                   !.averageScore = Rational(totalScore, Cardinality(DOMAIN bestScores)),
                   !.streaks = [current |-> st.streaks.current + 1,
                                longest |-> Max(st.streaks.longest, st.streaks.current + 1)],
                   !.averageConfidence =
                      Rational(st.averageConfidence.num * 100 + score * st.averageConfidence.den,
                               st.averageConfidence.den * 200)]]
\* userSchema.methods.updateStats, up to the save it returns.
updateStats(user, gameType, score, duration) ==
  LET st == user.stats
      best == IF score > st.bestScores[gameType] THEN score ELSE st.bestScores[gameType]
      bestScores == [st.bestScores EXCEPT ![gameType] = best]
      totalScore == bestScores.rapidFire + bestScores.conductor + bestScores.tripleStep
  IN [user EXCEPT !.stats =
        [st EXCEPT !.totalGamesPlayed = st.totalGamesPlayed + 1,
                   !.totalTimeSpent = st.totalTimeSpent + duration,
                   !.bestScores = bestScores,
                   !.averageScore = Rational(totalScore, Cardinality(DOMAIN bestScores)),
                   !.averageConfidence =
                      Rational(st.averageConfidence.num * 100 + score * st.averageConfidence.den,
                               st.averageConfidence.den * 200)]]

\* a => a.type === t found in this.achievements
HasAchievement(user, t) == \E i \in 1..Len(user.achievements) : user.achievements[i] = t

\* userSchema.methods.checkAchievements: the newAchievements it returns (it
\* also pushes them onto the document).
checkAchievements(user) ==
  (IF user.stats.totalGamesPlayed = 1 /\ ~HasAchievement(user, "first_game")
   THEN <<"first_game">> ELSE <<>>)
  \o (IF user.stats.streaks.current >= 5 /\ ~HasAchievement(user, "streak_5")
      THEN <<"streak_5">> ELSE <<>>)
  \o (IF user.stats.streaks.current >= 10 /\ ~HasAchievement(user, "streak_10")
      THEN <<"streak_10">> ELSE <<>>)

\* user.save() after updateStats: $set of the stats paths whose value differs
\* from the loaded one, applied to the record as persisted at the write.
SaveStats(persisted, loaded, local) ==
  LET p == persisted.stats
      l == loaded.stats
      n == local.stats
      pick(path) == IF n[path] # l[path] THEN n[path] ELSE p[path]
  IN [persisted EXCEPT !.stats =
        [totalGamesPlayed |-> pick("totalGamesPlayed"),
         totalTimeSpent |-> pick("totalTimeSpent"),
         averageScore |-> pick("averageScore"),
         bestScores |-> [g \in GameTypes |->
                           IF n.bestScores[g] # l.bestScores[g]
                           THEN n.bestScores[g] ELSE p.bestScores[g]],
         streaks |-> pick("streaks"),
         averageConfidence |-> pick("averageConfidence")]]

\* user.save() after checkAchievements: $push of the new array elements.
SaveAchievements(persisted, newAchievements) ==
  [persisted EXCEPT !.achievements = persisted.achievements \o newAchievements]

\* updateUserStats: score and duration handed to updateStats.
\* The accuracy taken for the score.
StatsAccuracy(doc) == OrZero(doc.performance.accuracy)
StatsScore(doc) == OrZero(doc.performance.score)
StatsDuration(doc) ==
  IF doc.sessionData.startTime # Undefined /\ doc.sessionData.endTime # Undefined
  THEN MathRound(doc.sessionData.endTime - doc.sessionData.startTime, 1000)
  ELSE IF OrZero(doc.sessionData.duration) # 0 THEN doc.sessionData.duration
  ELSE 0

\* gameSession.save() inside endSession: $set of the paths the handler
\* modified, applied to the record as persisted at the write.
SaveCompleted(persisted, loaded, local) ==
  [persisted EXCEPT
     !.performance = IF local.performance # loaded.performance
                     THEN local.performance ELSE @,
     !.gameSpecificData = [g \in GameTypes |->
                             IF local.gameSpecificData[g] # loaded.gameSpecificData[g]
                             THEN local.gameSpecificData[g] ELSE @[g]],
     !.sessionData = [startTime |-> @.startTime,
                      endTime |-> IF local.sessionData.endTime # loaded.sessionData.endTime
                                  THEN local.sessionData.endTime ELSE @.endTime,
                      duration |-> IF local.sessionData.duration # loaded.sessionData.duration
                                   THEN local.sessionData.duration ELSE @.duration],
     !.isCompleted = IF local.isCompleted # loaded.isCompleted
                     THEN local.isCompleted ELSE @]

\* gameSession.save() after gameSession.aiAnalysis = aiAnalysis.
SaveAnalysis(persisted, aiAnalysis) == [persisted EXCEPT !.aiAnalysis = aiAnalysis]

\* updateUserStats without its try/catch: the error reaches the outer catch.
StatsFailureRethrown == StatusServerError
\* updateUserStats catches and logs: the handler goes on to res.json.
StatsFailureStatus == StatusOk
\* The catch of the AI analysis saves the default analysis outside any inner
\* try: a rejected save reaches the handler's outer catch.
DefaultSaveFailureStatus == StatusServerError

(* --------------------------------------------------------- progress routes *)
\* JavaScript numbers that need not be integers: num / den with den > 0, and
\* with den = 0 Infinity (num = 1), -Infinity (num = -1) and NaN (num = 0).
Sign(n) == IF n > 0 THEN 1 ELSE IF n < 0 THEN -1 ELSE 0
Number(n) == [num |-> n, den |-> 1]
\* a / b
Divide(a, b) ==
  IF a.den = 0 \/ b.den = 0 THEN [num |-> 0, den |-> 0]
  ELSE IF b.num = 0 THEN [num |-> Sign(a.num), den |-> 0]
  ELSE Rational(Sign(b.num) * a.num * b.den, Sign(b.num) * b.num * a.den)
\* a - b
Minus(a, b) ==
  IF a.den = 0 \/ b.den = 0 THEN [num |-> 0, den |-> 0]
  ELSE Rational(a.num * b.den - b.num * a.den, a.den * b.den)
\* a * n for an integer n > 0
Times(a, n) == IF a.den = 0 THEN a ELSE Rational(a.num * n, a.den)
\* Math.round(a): Infinity, -Infinity and NaN are returned as they are.
PosInfinity == -9997
NegInfinity == -9996
Round(a) ==
  IF a.den = 0
  THEN CASE a.num = 1 -> PosInfinity [] a.num = -1 -> NegInfinity [] OTHER -> NaN
  ELSE MathRound(a.num, a.den)

\* reduce((sum, x) => sum + x, 0), Math.max(...xs) and Math.min(...xs)
RECURSIVE SumSeq(_)
SumSeq(xs) == IF xs = <<>> THEN 0 ELSE Head(xs) + SumSeq(Tail(xs))
RECURSIVE MaxSeq(_)
MaxSeq(xs) ==
  IF Len(xs) = 1 THEN xs[1]
  ELSE LET m == MaxSeq(Tail(xs)) IN IF Head(xs) > m THEN Head(xs) ELSE m
RECURSIVE MinSeq(_)
MinSeq(xs) ==
  IF Len(xs) = 1 THEN xs[1]
  ELSE LET m == MinSeq(Tail(xs)) IN IF Head(xs) < m THEN Head(xs) ELSE m

\* sessions.map(s => s.performance.score || 0), and the same of the durations
ScoresOf(found) == [i \in 1..Len(found) |-> OrZero(found[i].score)]
DurationsOf(found) == [i \in 1..Len(found) |-> OrZero(found[i].duration)]

\* .sort({'sessionData.startTime': 1}): insertion of x into a sorted sequence,
\* after the elements that start no later.
RECURSIVE InsertByStartTime(_, _)
InsertByStartTime(x, sorted) ==
  IF sorted = <<>> THEN <<x>>
  ELSE IF Head(sorted).startTime <= x.startTime
       THEN <<Head(sorted)>> \o InsertByStartTime(x, Tail(sorted))
       ELSE <<x>> \o sorted
RECURSIVE SortByStartTime(_)
SortByStartTime(found) ==
  IF found = <<>> THEN <<>>
  ELSE InsertByStartTime(found[Len(found)], SortByStartTime(SubSeq(found, 1, Len(found) - 1)))
RECURSIVE Reverse(_)
Reverse(xs) == IF xs = <<>> THEN <<>> ELSE Reverse(Tail(xs)) \o <<Head(xs)>>

\* The switch on timeRange / calculatePeriodStart, in days.
RangeDays(timeRange) ==
  CASE timeRange = "week" -> 7
    [] timeRange = "month" -> 30
    [] timeRange = "quarter" -> 90
    [] timeRange = "year" -> 365
    [] OTHER -> 30
calculatePeriodStart(t, period) == t - RangeDays(period)

\* GameSession.find on the user's completed sessions, in their natural order;
\* gameType "" is no filter on the game type.
\* {userId, isCompleted: true, gameType}
FindAll(all, gameType) ==
  LET Matches(x) == gameType = "" \/ x.gameType = gameType
  IN SelectSeq(all, Matches)
\* {..., 'sessionData.startTime': {$gte: from}}
FindSince(all, from, gameType) ==
  LET Matches(x) == x.startTime >= from
  IN SelectSeq(FindAll(all, gameType), Matches)
\* The query without its upper bound.
FindBetweenUnbounded(all, from, before, gameType) ==
  LET Matches(x) == x.startTime >= from
  IN SelectSeq(FindAll(all, gameType), Matches)
\* {..., 'sessionData.startTime': {$gte: from, $lt: before}}
FindBetween(all, from, before, gameType) ==
  LET Matches(x) == x.startTime >= from /\ x.startTime < before
  IN SelectSeq(FindAll(all, gameType), Matches)

\* Math.round(sum of the scores / sessions.length), 0 without sessions
AverageScore(found) ==
  IF Len(found) > 0 THEN MathRound(SumSeq(ScoresOf(found)), Len(found)) ELSE 0
BestScore(found) == IF Len(found) > 0 THEN MaxSeq(ScoresOf(found)) ELSE 0
TotalTime(found) == SumSeq(DurationsOf(found))

\* calculateImprovement: first half against second half, from two sessions on.
calculateImprovement(found) ==
  IF Len(found) < 2 THEN 0
  ELSE LET scores == ScoresOf(found)
           half == Len(scores) \div 2
           firstHalf == SubSeq(scores, 1, half)
           secondHalf == SubSeq(scores, half + 1, Len(scores))
           firstAvg == Divide(Number(SumSeq(firstHalf)), Number(Len(firstHalf)))
           secondAvg == Divide(Number(SumSeq(secondHalf)), Number(Len(secondHalf)))
       IN Round(Times(Divide(Minus(secondAvg, firstAvg), firstAvg), 100))

\* sessions.filter(s => s.gameType === type)
OfGameType(found, type) ==
  LET IsType(x) == x.gameType = type IN SelectSeq(found, IsType)

\* The overall improvement computed from two sessions on.
ImprovementFromTwo(found) ==
  IF Len(found) >= 2
  THEN LET scores == ScoresOf(found)
           midPoint == Len(found) \div 2
           firstHalf == SubSeq(scores, 1, midPoint)
           secondHalf == SubSeq(scores, midPoint + 1, Len(scores))
           firstHalfAvg == Divide(Number(SumSeq(firstHalf)), Number(Len(firstHalf)))
           secondHalfAvg == Divide(Number(SumSeq(secondHalf)), Number(Len(secondHalf)))
       IN Round(Times(Divide(Minus(secondHalfAvg, firstHalfAvg), firstHalfAvg), 100))
  ELSE 0
\* GET /overview: improvement, first half against second half of the range.
Improvement(found) ==
  IF Len(found) >= 4
  THEN LET scores == ScoresOf(found)
           midPoint == Len(found) \div 2
           firstHalf == SubSeq(scores, 1, midPoint)
           secondHalf == SubSeq(scores, midPoint + 1, Len(scores))
           firstHalfAvg == Divide(Number(SumSeq(firstHalf)), Number(Len(firstHalf)))
           secondHalfAvg == Divide(Number(SumSeq(secondHalf)), Number(Len(secondHalf)))
       IN Round(Times(Divide(Minus(secondHalfAvg, firstHalfAvg), firstHalfAvg), 100))
  ELSE 0

\* GET /overview
Overview(all, t, timeRange) ==
  LET found == SortByStartTime(FindSince(all, t - RangeDays(timeRange), ""))
  IN [route |-> "overview", status |-> StatusOk, timeRange |-> timeRange,
      totalSessions |-> Len(found),
      totalTime |-> TotalTime(found),
      averageScore |-> AverageScore(found),
      bestScore |-> BestScore(found),
      improvement |-> Improvement(found),
      \* gameTypeProgress[type].improvement; no entry for a type without sessions
      gameTypeImprovement |->
        [type \in GameTypes |->
           IF Len(OfGameType(found, type)) > 0
           THEN calculateImprovement(OfGameType(found, type))
           ELSE Undefined]]

\* calculateScoreDistribution
calculateScoreDistribution(found) ==
  LET scores == ScoresOf(found)
      Count(lo, hi) == Cardinality({i \in 1..Len(scores) : scores[i] > lo /\ scores[i] <= hi})
  IN [b0to20 |-> Cardinality({i \in 1..Len(scores) : scores[i] <= 20}),
      b21to40 |-> Count(20, 40), b41to60 |-> Count(40, 60),
      b61to80 |-> Count(60, 80),
      b81to100 |-> Cardinality({i \in 1..Len(scores) : scores[i] > 80})]

\* calculateDailyTrends: one entry per start day, in order of first occurrence.
RECURSIVE DaysOf(_)
DaysOf(found) ==
  IF found = <<>> THEN <<>>
  ELSE LET before == DaysOf(SubSeq(found, 1, Len(found) - 1))
           day == found[Len(found)].startTime
       IN IF \E i \in 1..Len(before) : before[i] = day THEN before
          ELSE Append(before, day)
calculateDailyTrends(found) ==
  LET days == DaysOf(found)
      On(day) == LET SameDay(x) == x.startTime = day IN SelectSeq(found, SameDay)
  IN [i \in 1..Len(days) |->
        [date |-> days[i], sessions |-> Len(On(days[i])),
         averageScore |-> MathRound(SumSeq(ScoresOf(On(days[i]))), Len(On(days[i]))),
         totalTime |-> TotalTime(On(days[i]))]]

\* calculateGameSpecificMetrics, rapidFire: the share of completed prompts.
ResponseRate(found) ==
  LET completed == SumSeq([i \in 1..Len(found) |-> OrZero(found[i].completedPrompts)])
      total == SumSeq([i \in 1..Len(found) |-> OrZero(found[i].totalPrompts)])
  IN Round(Times(Divide(Number(completed), Number(total)), 100))

\* The analytics object built from the sessions found.
AnalyticsReport(found, gameType, timeRange) ==
  [route |-> "analytics", status |-> StatusOk,
   gameType |-> gameType, timeRange |-> timeRange,
   totalSessions |-> Len(found),
   averageScore |-> AverageScore(found),
   bestScore |-> BestScore(found),
   worstScore |-> IF Len(found) > 0 THEN MinSeq(ScoresOf(found)) ELSE 0,
   scoreDistribution |-> calculateScoreDistribution(found),
   totalTime |-> TotalTime(found),
   averageSessionLength |->
     IF Len(found) > 0 THEN MathRound(TotalTime(found), Len(found)) ELSE 0,
   longestSession |-> IF Len(found) > 0 THEN MaxSeq(DurationsOf(found)) ELSE 0,
   shortestSession |-> IF Len(found) > 0 THEN MinSeq(DurationsOf(found)) ELSE 0,
   daily |-> calculateDailyTrends(found),
   \* gameSpecificMetrics.responseRate; gameSpecificMetrics is null without a
   \* gameType or without sessions of it
   responseRate |->
     IF gameType = "rapidFire" /\ Len(OfGameType(found, gameType)) > 0
     THEN ResponseRate(OfGameType(found, gameType))
     ELSE Undefined]

\* Analytics with "all" taken as one more rolling window.
AnalyticsAllWindowed(all, t, gameType, timeRange) ==
  AnalyticsReport(SortByStartTime(FindSince(all, t - RangeDays("week"), gameType)),
                  gameType, timeRange)
\* GET /analytics; timeRange "all" adds no filter on the start time.
Analytics(all, t, gameType, timeRange) ==
  AnalyticsReport(SortByStartTime(
                    IF timeRange = "all" THEN FindAll(all, gameType)
                    ELSE FindSince(all, t - RangeDays(timeRange), gameType)),
                  gameType, timeRange)

\* calculatePeriodMetrics
calculatePeriodMetrics(found) ==
  [sessions |-> Len(found), averageScore |-> AverageScore(found),
   bestScore |-> BestScore(found), totalTime |-> TotalTime(found)]

\* period2 > 0 ? Math.round(((period1 - period2) / period2) * 100) : 0
PercentageChange(p1, p2) ==
  IF p2 > 0 THEN Round(Times(Divide(Number(p1 - p2), Number(p2)), 100)) ELSE 0

\* GET /compare
Change(p1, p2) ==
  [period1 |-> p1, period2 |-> p2, change |-> p1 - p2,
   percentageChange |-> PercentageChange(p1, p2)]
Compare(all, t, period1, period2, gameType) ==
  LET period1Start == calculatePeriodStart(t, period1)
      period2Start == calculatePeriodStart(t, period2)
      period1Metrics ==
        calculatePeriodMetrics(FindBetween(all, period1Start, t, gameType))
      period2Metrics ==
        calculatePeriodMetrics(FindBetween(all, period2Start, period1Start, gameType))
  IN [route |-> "compare", status |-> StatusOk,
      period1 |-> period1, period2 |-> period2, gameType |-> gameType,
      period1Metrics |-> period1Metrics, period2Metrics |-> period2Metrics,
      changes |-> [sessions |-> Change(period1Metrics.sessions, period2Metrics.sessions),
                   averageScore |-> Change(period1Metrics.averageScore,
                                           period2Metrics.averageScore),
                   totalTime |-> Change(period1Metrics.totalTime,
                                        period2Metrics.totalTime)]]

\* GET /stats: the session-based part of the report.  bestScore of a game
\* type is taken over sessions, not typeSessions.
Stats(all, t, gameType, timeRange) ==
  LET found == Reverse(SortByStartTime(
                 IF timeRange = "all" THEN FindAll(all, gameType)
                 ELSE FindSince(all, t - RangeDays(timeRange), gameType)))
  IN [route |-> "stats", status |-> StatusOk,
      totalSessions |-> Len(found),
      totalTime |-> TotalTime(found),
      sessionAverageScore |-> AverageScore(found),
      bestScore |-> BestScore(found),
      gameTypeBreakdown |->
        [type \in GameTypes |->
           LET typeSessions == OfGameType(found, type)
           IN [sessions |-> Len(typeSessions),
               averageScore |-> AverageScore(typeSessions),
               bestScore |-> IF Len(typeSessions) > 0
                             THEN MaxSeq(ScoresOf(found)) ELSE 0,
               totalTime |-> TotalTime(typeSessions)]]]

\* getFeedbackService and FeedbackService.generatePersonalizedFeedback: the
\* service answers from the provider, or catches the provider's error and
\* returns getDefaultFeedback; the fallback object of a service that was never
\* initialised has generateFeedback only, so the call throws a TypeError.
FeedbackStates == {"answers", "throws", "fallback"}
generatePersonalizedFeedback(feedback) ==
  CASE feedback = "answers" -> [threw |-> FALSE, content |-> "provider"]
    [] feedback = "throws" -> [threw |-> FALSE, content |-> "default"]
    [] feedback = "fallback" -> [threw |-> TRUE, content |-> "none"]

\* GET /insights
InsightsLimit == 20
Limit(xs, n) == IF Len(xs) > n THEN SubSeq(xs, 1, n) ELSE xs
Insights(all, t, timeRange, feedback) ==
  LET found == Limit(Reverse(SortByStartTime(
                  FindSince(all, t - RangeDays(timeRange), ""))), InsightsLimit)
      insights == generatePersonalizedFeedback(feedback)
  IN IF Len(found) = 0
     THEN [route |-> "insights", status |-> StatusOk, timeRange |-> timeRange,
           feedback |-> feedback, totalSessions |-> 0, content |-> "no sessions"]
     ELSE IF insights.threw
     THEN [route |-> "insights", status |-> StatusServerError, timeRange |-> timeRange,
           feedback |-> feedback, totalSessions |-> Len(found), content |-> "none"]
     ELSE [route |-> "insights", status |-> StatusOk, timeRange |-> timeRange,
           feedback |-> feedback, totalSessions |-> Len(found),
           content |-> insights.content]

(* ------------------------------------------------------------------ state *)
VARIABLES
  sessions,     \* the GameSession collection: session id -> record
  users,        \* the User collection: user id -> record
  req,          \* the end-session requests: their position and local variables
  now,          \* the clock, in milliseconds
  completedBy,  \* history: the request whose write first completed a session
  history,      \* the user's completed sessions, as the progress routes find them
  clock,        \* the clock of the progress routes, in days
  reply,        \* the last response of a progress route or of a sub-analysis
  account       \* the account-deletion request of user u1: its position

gameVars == <<sessions, users, req, now, completedBy, account>>
progressVars == <<history, clock, reply>>
vars == <<sessions, users, req, now, completedBy, history, clock, reply, account>>

IdleRequest ==
  [pc |-> "idle", userId |-> "u1", sessionId |-> 0, doc |-> NoSession,
   user |-> DefaultUser, newAchievements |-> <<>>, status |-> 0,
   afterReturn |-> FALSE, provider |-> "none", completed |-> FALSE,
   statsApplied |-> FALSE, fault |-> "none",
   data |-> [present |-> FALSE], body |-> [present |-> FALSE]]

\* No progress route has answered yet.
NoReply == [route |-> "none"]

\* No DELETE /account request has arrived.
NoDeletion == [pc |-> "idle", userId |-> "u1"]

Init ==
  /\ sessions = [s \in SessionIds |-> NoSession]
  /\ users = [u \in Callers |-> DefaultUser]
  /\ req = [r \in Requests |-> IdleRequest]
  /\ now = 0
  /\ completedBy = [s \in SessionIds |-> 0]
  /\ history = <<>>
  /\ clock = 0
  /\ reply = NoReply
  /\ account = NoDeletion

\* new Date(): the clock has advanced by at most one tick since its last reading.
Clock(t) == /\ t \in {now, now + TickMs}
            /\ t <= MaxTicks * TickMs

\* res.json / res.status(...).json: the handler's local variables are gone;
\* the history fields stay.
Respond(r, status, fault) ==
  [req EXCEPT ![r] = [IdleRequest EXCEPT
                        !.pc = "done", !.status = status, !.fault = fault,
                        !.userId = req[r].userId, !.sessionId = req[r].sessionId,
                        !.afterReturn = req[r].afterReturn,
                        !.completed = req[r].completed,
                        !.statsApplied = req[r].statsApplied]]

(* --------------------------------------------------- POST /start-session *)
StartSession(userId, gameType) ==
  \E sessionId \in SessionIds, t \in {now, now + TickMs} :
    /\ Clock(t)
    /\ sessions[sessionId] = NoSession
    /\ \A s \in SessionIds : s < sessionId => sessions[s] # NoSession
    /\ sessions' = [sessions EXCEPT ![sessionId] = NewSession(userId, gameType, t)]
    /\ now' = t
    /\ UNCHANGED <<users, req, completedBy, progressVars, account>>

(* ----------------------------------------- POST /end-session/:sessionId *)
\* GameSession.findOne({_id, userId}) and the two early returns.
EndSessionFind(r, userId, sessionId) ==
  LET found == sessions[sessionId]
      status == FindOneStatus(found, userId)
      returned == \E q \in Requests : /\ req[q].sessionId = sessionId
                                      /\ req[q].pc = "done"
                                      /\ req[q].status = StatusOk
  IN /\ req[r].pc = "idle"
     /\ \A q \in Requests : q < r => req[q].pc # "idle"
     /\ req' = [req EXCEPT ![r] =
                  [@ EXCEPT !.userId = userId, !.sessionId = sessionId,
                            !.afterReturn = returned,
                            !.doc = IF status = 0 THEN found ELSE NoSession,
                            !.pc = IF status = 0 THEN "found" ELSE "done",
                            !.status = status]]
     /\ UNCHANGED <<sessions, users, now, completedBy, progressVars, account>>

\* The assignments from the request body, endSession() and its save.  A body
\* without performance throws a TypeError into the handler's outer catch.
EndSessionSave(r, performance, data) ==
  /\ req[r].pc = "found"
  /\ data.present => data.gameType = req[r].doc.gameType
  /\ IF ~performance.present
     THEN /\ req' = Respond(r, StatusServerError, "none")
          /\ UNCHANGED <<sessions, now, completedBy>>
     ELSE \E t \in {now, now + TickMs} :
            LET sid == req[r].sessionId
                local == CompletedDocument(req[r].doc, performance, data, t)
            IN /\ Clock(t)
               /\ now' = t
               /\ sessions' = [sessions EXCEPT
                                 ![sid] = SaveCompleted(@, req[r].doc, local)]
               /\ completedBy' = IF sessions[sid].isCompleted THEN completedBy
                                 ELSE [completedBy EXCEPT ![sid] = r]
               /\ req' = [req EXCEPT ![r].doc = local, ![r].data = data,
                                      ![r].body = performance,
                                      ![r].completed = TRUE,
                                      ![r].pc = "analysis"]
  /\ UNCHANGED <<users, progressVars, account>>

\* What the provider did during one analysis: no call was made, every call
\* threw, or anything else.
Threw == [kind |-> "throws", success |-> FALSE, coherenceScore |-> Undefined]
ProviderOutcome(doc, service, replies, coherenceReply) ==
  IF AnalysisItems(doc) = 0 \/ service = "fallback" THEN "none"
  ELSE IF /\ \A i \in DOMAIN replies : replies[i].kind = "throws"
          /\ doc.gameType = "tripleStep" => coherenceReply.kind = "throws"
       THEN "threw"
       ELSE "other"

\* The inner try: the analysis of the game type, then gameSession.save().  A
\* rejected save lands in the inner catch with the session not yet updated.
AnalysisSave(r, service, replies, coherenceReply) ==
  LET doc == req[r].doc
      n == AnalysisItems(doc)
      aiAnalysis == Analyze(doc, service, replies, coherenceReply)
  IN /\ req[r].pc = "analysis"
     /\ replies \in [1..n -> ProviderReplies]
     \* inputs the analysis never reads are fixed
     /\ (n = 0 \/ service = "fallback") =>
           /\ coherenceReply = Threw
           /\ \A i \in 1..n : replies[i] = Threw
     /\ n = 0 => service = "ready"
     /\ doc.gameType # "tripleStep" => coherenceReply = Threw
     /\ IF AnalysisStorable(aiAnalysis)
        THEN /\ sessions' = [sessions EXCEPT
                               ![req[r].sessionId] = SaveAnalysis(@, aiAnalysis)]
             /\ req' = [req EXCEPT
                          ![r].doc.aiAnalysis = aiAnalysis,
                          ![r].provider =
                             ProviderOutcome(doc, service, replies, coherenceReply),
                          ![r].pc = "stats"]
        ELSE /\ req' = [req EXCEPT
                          ![r].doc.aiAnalysis = aiAnalysis,
                          ![r].provider =
                             ProviderOutcome(doc, service, replies, coherenceReply),
                          ![r].pc = "analysisCatch"]
             /\ UNCHANGED sessions
     /\ UNCHANGED <<users, now, completedBy, progressVars, account>>

\* The inner catch: getDefaultAnalysis() and a second gameSession.save().
AnalysisCatchSave(r) ==
  /\ req[r].pc = "analysisCatch"
  /\ sessions' = [sessions EXCEPT
                    ![req[r].sessionId] = SaveAnalysis(@, getDefaultAnalysis)]
  /\ req' = [req EXCEPT ![r].doc.aiAnalysis = getDefaultAnalysis, ![r].pc = "stats"]
  /\ UNCHANGED <<users, now, completedBy, progressVars, account>>

\* updateUserStats: User.findById.
UpdateUserStatsFind(r) ==
  /\ req[r].pc = "stats"
  /\ req' = [req EXCEPT ![r].user = users[req[r].userId], ![r].pc = "update"]
  /\ UNCHANGED <<sessions, users, now, completedBy, progressVars, account>>

\* updateUserStats: user.updateStats(...) with its save, then
\* checkAchievements; without new achievements the handler responds.
UpdateStatsSave(r) ==
  LET u == req[r].userId
      doc == req[r].doc
      local == updateStats(req[r].user, doc.gameType, StatsScore(doc), StatsDuration(doc))
      newAchievements == checkAchievements(local)
  IN /\ req[r].pc = "update"
     /\ users' = [users EXCEPT ![u] = SaveStats(@, req[r].user, local)]
     /\ req' = IF newAchievements = <<>>
               THEN [Respond(r, StatusOk, "none") EXCEPT ![r].statsApplied = TRUE]
               ELSE [req EXCEPT
                       ![r].user = [local EXCEPT !.achievements = @ \o newAchievements],
                       ![r].newAchievements = newAchievements,
                       ![r].statsApplied = TRUE,
                       ![r].pc = "achievements"]
     /\ UNCHANGED <<sessions, now, completedBy, progressVars, account>>

\* updateUserStats: the user.save() of the new achievements, then res.json.
AchievementsSave(r) ==
  /\ req[r].pc = "achievements"
  /\ users' = [users EXCEPT
                 ![req[r].userId] = SaveAchievements(@, req[r].newAchievements)]
  /\ req' = Respond(r, StatusOk, "none")
  /\ UNCHANGED <<sessions, now, completedBy, progressVars, account>>

(* ------------------------------------------------- database write errors *)
\* The save inside endSession() rejects: the outer catch answers 500.
EndSessionSaveFails(r) ==
  /\ req[r].pc = "found"
  /\ req' = Respond(r, StatusServerError, "completingSave")
  /\ UNCHANGED <<sessions, users, now, completedBy, progressVars, account>>

\* The save of the analysis rejects: the inner catch takes over.
AnalysisSaveFails(r) ==
  /\ req[r].pc = "analysis"
  /\ req' = [req EXCEPT ![r].pc = "analysisCatch", ![r].fault = "analysisSave"]
  /\ UNCHANGED <<sessions, users, now, completedBy, progressVars, account>>

\* The save of the default analysis rejects, inside the inner catch.
AnalysisCatchSaveFails(r) ==
  /\ req[r].pc = "analysisCatch"
  /\ req' = Respond(r, DefaultSaveFailureStatus, "defaultSave")
  /\ UNCHANGED <<sessions, users, now, completedBy, progressVars, account>>

\* User.findById rejects or returns null.
UpdateUserStatsFindFails(r) ==
  /\ req[r].pc = "stats"
  /\ req' = Respond(r, StatsFailureStatus, "userFind")
  /\ UNCHANGED <<sessions, users, now, completedBy, progressVars, account>>

\* The save inside updateStats rejects.
UpdateStatsSaveFails(r) ==
  /\ req[r].pc = "update"
  /\ req' = Respond(r, StatsFailureStatus, "statsSave")
  /\ UNCHANGED <<sessions, users, now, completedBy, progressVars, account>>

\* The save of the new achievements rejects.
AchievementsSaveFails(r) ==
  /\ req[r].pc = "achievements"
  /\ req' = Respond(r, StatsFailureStatus, "achievementsSave")
  /\ UNCHANGED <<sessions, users, now, completedBy, progressVars, account>>

(* ---------------------------------------------------------- progress routes *)
\* The completed sessions the model lets a user have: game type, stored
\* score (nothing bounds it to 0..100) and duration in seconds.
CompletedSessionInputs ==
  { [gameType |-> "rapidFire", score |-> 50, duration |-> 60],
    [gameType |-> "conductor", score |-> 60, duration |-> 90],
    [gameType |-> "tripleStep", score |-> 70, duration |-> 30],
    [gameType |-> "rapidFire", score |-> 80, duration |-> 120],
    [gameType |-> "conductor", score |-> 0, duration |-> 0],
    [gameType |-> "tripleStep", score |-> -50, duration |-> 45] }
OverviewRanges == {"week", "month"}
AnalyticsRanges == {"week", "month", "all"}
AnalyticsGameTypes == {"", "rapidFire"}
ComparePeriods == {"week", "month"}
InsightsRanges == {"week"}

\* The record of a session ended with performance.score x.score, as a find
\* returns it: the performance paths are those end-session assigned.
CompletedRecord(x, startTime) ==
  LET stored == SetPerformance(NewSession("u1", x.gameType, startTime),
                               [present |-> TRUE, score |-> x.score,
                                accuracy |-> Undefined, speed |-> Undefined]).performance
  IN [gameType |-> x.gameType, score |-> stored.score, duration |-> x.duration,
      startTime |-> startTime, totalPrompts |-> stored.totalPrompts,
      completedPrompts |-> stored.completedPrompts]

\* A session started at the current time is completed (start-session, then
\* end-session); the next event is at least a day later.
SessionCompleted(x) ==
  /\ Len(history) < MaxHistory
  /\ clock + 1 <= MaxClock
  /\ history' = Append(history, CompletedRecord(x, clock))
  /\ clock' = clock + 1
  /\ reply' = NoReply
  /\ UNCHANGED gameVars

\* Time passes.
Tick ==
  /\ clock + LongTick <= MaxClock
  /\ clock' = clock + LongTick
  /\ UNCHANGED <<history, reply>>
  /\ UNCHANGED gameVars

GetOverview(timeRange) ==
  /\ reply' = Overview(history, clock, timeRange)
  /\ UNCHANGED <<history, clock>>
  /\ UNCHANGED gameVars

GetAnalytics(gameType, timeRange) ==
  /\ reply' = Analytics(history, clock, gameType, timeRange)
  /\ UNCHANGED <<history, clock>>
  /\ UNCHANGED gameVars

GetCompare(period1, period2, gameType) ==
  /\ reply' = Compare(history, clock, period1, period2, gameType)
  /\ UNCHANGED <<history, clock>>
  /\ UNCHANGED gameVars

GetInsights(timeRange, feedback) ==
  /\ reply' = Insights(history, clock, timeRange, feedback)
  /\ UNCHANGED <<history, clock>>
  /\ UNCHANGED gameVars

(* --------------------------------------------------------- specifications *)
Next ==
  \/ \E u \in UserIds, g \in GameTypes : StartSession(u, g)
  \/ \E r \in Requests, u \in UserIds, s \in SessionIds : EndSessionFind(r, u, s)
  \/ \E r \in Requests, p \in ScoredPerformanceBodies, d \in RawGameSpecificBodies :
        EndSessionSave(r, p, d)
  \/ \E r \in Requests, sv \in ServiceStates, c \in ProviderReplies,
        rs \in UNION {[1..n -> ProviderReplies] : n \in 0..MaxWords} :
          AnalysisSave(r, sv, rs, c)
  \/ \E r \in Requests : AnalysisCatchSave(r)
  \/ \E r \in Requests : UpdateUserStatsFind(r)
  \/ \E r \in Requests : UpdateStatsSave(r)
  \/ \E r \in Requests : AchievementsSave(r)

\* Concurrent requests; the database behaves.
Spec == Init /\ [][Next]_vars

\* No other request is between its findOne and its response.
Alone == \A q \in Requests : req[q].pc \in {"idle", "done"}

NextFaulty ==
  \/ \E u \in UserIds, g \in GameTypes : StartSession(u, g)
  \/ \E r \in Requests, u \in Callers, s \in SessionIds :
        Alone /\ EndSessionFind(r, u, s)
  \/ \E r \in Requests, p \in PerformanceBodies, d \in GameSpecificBodies :
        EndSessionSave(r, p, d)
  \/ \E r \in Requests, sv \in ServiceStates, c \in ProviderReplies,
        rs \in UNION {[1..n -> ProviderReplies] : n \in 0..MaxWords} :
          AnalysisSave(r, sv, rs, c)
  \/ \E r \in Requests : AnalysisCatchSave(r)
  \/ \E r \in Requests : UpdateUserStatsFind(r)
  \/ \E r \in Requests : UpdateStatsSave(r)
  \/ \E r \in Requests : AchievementsSave(r)
  \/ \E r \in Requests : EndSessionSaveFails(r)
  \/ \E r \in Requests : AnalysisSaveFails(r)
  \/ \E r \in Requests : AnalysisCatchSaveFails(r)
  \/ \E r \in Requests : UpdateUserStatsFindFails(r)
  \/ \E r \in Requests : UpdateStatsSaveFails(r)
  \/ \E r \in Requests : AchievementsSaveFails(r)

\* Requests one at a time, every request body; any database call after
\* findOne may reject.
SpecFaulty == Init /\ [][NextFaulty]_vars

NextProgress ==
  \/ \E x \in CompletedSessionInputs : SessionCompleted(x)
  \/ Tick
  \/ \E timeRange \in OverviewRanges : GetOverview(timeRange)
  \/ \E gameType \in AnalyticsGameTypes, timeRange \in AnalyticsRanges :
        GetAnalytics(gameType, timeRange)
  \/ \E period1 \in ComparePeriods, period2 \in ComparePeriods :
        GetCompare(period1, period2, "")
  \/ \E timeRange \in InsightsRanges, feedback \in FeedbackStates :
        GetInsights(timeRange, feedback)

\* The progress routes over the completed sessions of one user.
SpecProgress == Init /\ [][NextProgress]_vars

(* ---------------------------------------------------------------- GET /stats *)
GetStats(gameType, timeRange) ==
  /\ reply' = Stats(history, clock, gameType, timeRange)
  /\ UNCHANGED <<history, clock>>
  /\ UNCHANGED gameVars

NextStats ==
  \/ \E x \in CompletedSessionInputs : SessionCompleted(x)
  \/ \E gameType \in AnalyticsGameTypes : GetStats(gameType, "all")

\* The statistics report over the completed sessions of one user.
SpecStats == Init /\ [][NextStats]_vars

(* ---------------------------------------------------------- DELETE /account *)
\* User.findById and comparePassword; a wrong password ends the request.
DeleteVerify(passwordValid) ==
  /\ account.pc = "idle"
  /\ account' = [account EXCEPT !.pc = IF passwordValid THEN "verified" ELSE "refused"]
  /\ UNCHANGED <<sessions, users, req, now, completedBy, progressVars>>

\* GameSession.deleteMany({ userId })
DeleteSessions ==
  /\ account.pc = "verified"
  /\ sessions' = [s \in SessionIds |->
                    IF sessions[s].exists /\ sessions[s].userId = account.userId
                    THEN DeletedSession ELSE sessions[s]]
  /\ account' = [account EXCEPT !.pc = "sessionsDeleted"]
  /\ UNCHANGED <<users, req, now, completedBy, progressVars>>

\* User.findByIdAndDelete, then res.json.
DeleteUser ==
  /\ account.pc = "sessionsDeleted"
  /\ account' = [account EXCEPT !.pc = "done"]
  /\ UNCHANGED <<sessions, users, req, now, completedBy, progressVars>>

\* The user record exists: the auth middleware lets the user's requests in,
\* and a save of the user's document finds its record.
UserExists == account.pc # "done"
\* The record a request loaded is still there: save() of the document updates
\* it; otherwise save() rejects with DocumentNotFoundError.
SessionPersisted(r) ==
  req[r].sessionId \in SessionIds /\ sessions[req[r].sessionId].exists

AccountBodies == {[present |-> TRUE, score |-> 40, accuracy |-> Undefined, speed |-> 3]}

NextAccount ==
  \/ UserExists /\ StartSession("u1", "rapidFire")
  \/ \E r \in Requests, s \in SessionIds :
        UserExists /\ Alone /\ EndSessionFind(r, "u1", s)
  \/ \E r \in Requests, p \in AccountBodies :
        SessionPersisted(r) /\ EndSessionSave(r, p, [present |-> FALSE])
  \/ \E r \in Requests : ~SessionPersisted(r) /\ EndSessionSaveFails(r)
  \/ \E r \in Requests :
        SessionPersisted(r) /\ AnalysisSave(r, "ready", <<>>, Threw)
  \/ \E r \in Requests : ~SessionPersisted(r) /\ AnalysisSaveFails(r)
  \* the inner catch is entered only after a save that found no record
  \/ \E r \in Requests : ~SessionPersisted(r) /\ AnalysisCatchSaveFails(r)
  \/ \E r \in Requests : UserExists /\ UpdateUserStatsFind(r)
  \/ \E r \in Requests : ~UserExists /\ UpdateUserStatsFindFails(r)
  \/ \E r \in Requests : UserExists /\ UpdateStatsSave(r)
  \/ \E r \in Requests : ~UserExists /\ UpdateStatsSaveFails(r)
  \/ \E r \in Requests : UserExists /\ AchievementsSave(r)
  \/ \E r \in Requests : ~UserExists /\ AchievementsSaveFails(r)
  \/ \E passwordValid \in BOOLEAN : DeleteVerify(passwordValid)
  \/ DeleteSessions
  \/ DeleteUser

\* One account deletion among the user's start-session and end-session
\* requests.
SpecAccount == Init /\ [][NextAccount]_vars

(* ------------------------------------------------ one provider reply decoded *)
\* A sub-analysis receives the provider's text and returns its result; one
\* reply is decoded per behaviour.
Decode(parser, text) ==
  /\ reply = NoReply
  /\ reply' = [route |-> "decode", parser |-> parser, text |-> text,
               result |-> SubAnalysis(parser, text),
               threw |-> Parse(parser, text).kind = "throws"]
  /\ UNCHANGED <<history, clock, gameVars>>

NextDecode == \E parser \in Parsers, text \in Texts : Decode(parser, text)

\* Every decoder on every text.
SpecDecode == Init /\ [][NextDecode]_vars

(* ------------------------------------------------------------- properties *)
Done(r) == req[r].pc = "done"
InFlight(r) == req[r].pc \notin {"idle", "done"}

\* C1: of the end-session requests on one session that got past the
\* ownership check, exactly one returns success and every other one is
\* rejected as already completed.
Ended(s) == {r \in Requests : /\ Done(r) /\ req[r].sessionId = s
                              /\ req[r].status \in {StatusOk, StatusAlreadyCompleted}}
C1_ExactlyOneEndSucceeds ==
  \A s \in SessionIds :
    Cardinality(Ended(s)) >= 2 =>
      Cardinality({r \in Ended(s) : req[r].status = StatusOk}) = 1

\* C2: the statistics update (User.updateStats) runs at most once for a
\* session, whatever the interleaving of the end-session requests on it.
StatsRuns(s) == {r \in Requests : req[r].sessionId = s /\ req[r].statsApplied}
C2_StatsUpdatedOncePerSession ==
  \A s \in SessionIds : Cardinality(StatsRuns(s)) <= 1

\* C3: an end-session request that starts after another request on the same
\* session has returned success is rejected with "already completed" at once,
\* writes nothing, and the statistics update of the session ran in the first
\* call and not in the second.
C3_SecondEndRejected ==
  \A r \in Requests :
    req[r].afterReturn =>
      /\ Done(r)
      /\ req[r].status = StatusAlreadyCompleted
      /\ ~req[r].completed
      /\ ~req[r].statsApplied
      /\ \A q \in Requests :
           (Done(q) /\ req[q].sessionId = req[r].sessionId /\ req[q].status = StatusOk)
             => req[q].statsApplied
C3_Witness ==
  \E r \in Requests :
    /\ req[r].afterReturn /\ Done(r)
    /\ users[req[r].userId].stats.totalGamesPlayed = 1
    /\ users[req[r].userId].stats.totalTimeSpent = 1

\* C4: once a session is persisted as completed, as long as the record exists
\* isCompleted stays true and performance and sessionData never change;
\* aiAnalysis is attached only by the request whose write completed the
\* session.
C4_CompletedIsTerminal ==
  [][\A s \in SessionIds :
       (sessions[s].exists /\ sessions[s].isCompleted /\ sessions'[s].exists) =>
         /\ sessions'[s].isCompleted
         /\ sessions'[s].performance = sessions[s].performance
         /\ sessions'[s].sessionData = sessions[s].sessionData
         /\ sessions'[s].aiAnalysis # sessions[s].aiAnalysis =>
              req'[completedBy[s]] # req[completedBy[s]]]_vars

\* C5: with no end-session request in flight, totalGamesPlayed of a user is
\* the number of the user's completed sessions.  Stated for the case the claim
\* singles out: no two requests completed the same session.
Quiescent == \A r \in Requests : ~InFlight(r)
CompletedSessions(u) ==
  {s \in SessionIds : sessions[s].exists /\ sessions[s].userId = u /\ sessions[s].isCompleted}
C5_GamesPlayedMatchesCompleted ==
  (/\ Quiescent
   /\ \A r, q \in Requests :
        (r # q /\ req[r].completed /\ req[q].completed)
          => req[r].sessionId # req[q].sessionId)
  => \A u \in UserIds :
       users[u].stats.totalGamesPlayed = Cardinality(CompletedSessions(u))

\* C6: when every call to the provider threw, the analysis attached to the
\* session is the fixed default analysis.
Analysed(r) == req[r].pc \in {"stats", "update", "achievements"}
C6_ThrowingProviderGivesDefault ==
  \A r \in Requests :
    (Analysed(r) /\ req[r].provider = "threw")
      => req[r].doc.aiAnalysis = getDefaultAnalysis

\* C7: a request whose completing write succeeded returns success, whatever
\* happens in the AI analysis step and its saves.
C7_CompletedRequestSucceeds ==
  \A r \in Requests : (Done(r) /\ req[r].completed) => req[r].status = StatusOk

\* C8: a failure of the statistics update (user not found, a rejected save
\* in updateStats or of the achievements) leaves the response a success and
\* the persisted session completed, and no step of the statistics update
\* writes to a session.
StatsFaults == {"userFind", "statsSave", "achievementsSave"}
C8_StatsFailureOnlyLogged ==
  /\ [](\A r \in Requests :
          (Done(r) /\ req[r].fault \in StatsFaults) =>
            /\ req[r].status = StatusOk
            /\ sessions[req[r].sessionId].exists
            /\ sessions[req[r].sessionId].isCompleted)
  /\ [][\A r \in Requests :
          (req[r].pc \in {"stats", "update", "achievements"} /\ req'[r] # req[r])
            => sessions' = sessions]_vars
C8_Witness ==
  \E r \in Requests :
    /\ Done(r) /\ req[r].fault = "statsSave" /\ req[r].status = StatusOk
    /\ sessions[req[r].sessionId].isCompleted
    /\ users[req[r].userId].stats.totalGamesPlayed = 0

\* C9: an end-session request on a rapidFire session whose raw game data has
\* totalPrompts = T > 0 and completedResponses = C <= T completes the session
\* with accuracy = round(C / T * 100) and score = accuracy.
C9_RapidFireAccuracyFromRaw ==
  \A r \in Requests :
    LET raw == req[r].data
        performance == req[r].doc.performance
    IN (/\ InFlight(r) /\ req[r].completed
        /\ req[r].doc.gameType = "rapidFire"
        /\ raw.present
        /\ JsGreater(raw.totalPrompts, 0)
        /\ raw.completedResponses <= raw.totalPrompts)
       => /\ performance.accuracy =
               MathRound(raw.completedResponses * 100, raw.totalPrompts)
          /\ performance.score = performance.accuracy

\* C10: an end-session request on a tripleStep session whose raw game data
\* has wordsAttempted = W > 0 and successfulIntegrations = S <= W completes
\* the session with accuracy = round(S / W * 100) and with wordIntegration
\* and score equal to that accuracy.
C10_TripleStepAccuracyFromRaw ==
  \A r \in Requests :
    LET raw == req[r].data
        performance == req[r].doc.performance
    IN (/\ InFlight(r) /\ req[r].completed
        /\ req[r].doc.gameType = "tripleStep"
        /\ raw.present
        /\ JsGreater(raw.wordsAttempted, 0)
        /\ raw.successfulIntegrations <= raw.wordsAttempted)
       => /\ performance.accuracy =
               MathRound(raw.successfulIntegrations * 100, raw.wordsAttempted)
          /\ performance.wordIntegration = performance.accuracy
          /\ performance.score = performance.accuracy

\* C11: an end-session request whose raw data has a zero denominator
\* (rapidFire totalPrompts = 0, tripleStep wordsAttempted = 0) completes the
\* session with accuracy = 0, whatever else the request carries.
ZeroDenominator(r) ==
  /\ req[r].data.present
  /\ \/ req[r].doc.gameType = "rapidFire" /\ req[r].data.totalPrompts = 0
     \/ req[r].doc.gameType = "tripleStep" /\ req[r].data.wordsAttempted = 0
C11_ZeroDenominatorAccuracyZero ==
  \A r \in Requests :
    (InFlight(r) /\ req[r].completed /\ ZeroDenominator(r))
      => /\ req[r].doc.performance.accuracy = 0
         /\ sessions[req[r].sessionId].performance.accuracy = 0

\* C12: every persisted session with isCompleted = true has score and
\* accuracy in 0..100.
C12_ScoreAndAccuracyInRange ==
  \A s \in SessionIds :
    (sessions[s].exists /\ sessions[s].isCompleted)
      => /\ sessions[s].performance.score \in 0..100
         /\ sessions[s].performance.accuracy \in 0..100

\* C13: no step decreases a persisted best score of a user.
C13_BestScoresNeverDecrease ==
  [][\A u \in UserIds, g \in GameTypes :
       users'[u].stats.bestScores[g] >= users[u].stats.bestScores[g]]_vars

\* C14: a statistics update with (gameType, score) leaves bestScores[gameType]
\* at max(previous best, score), the other best scores as they were, and
\* averageScore at the mean of the three best scores.
C14_BestScoreIsMaxAndAverageOfBests ==
  [][\A r \in Requests :
       (req[r].pc = "update" /\ req'[r].statsApplied) =>
         LET u == req[r].userId
             g == req[r].doc.gameType
             score == StatsScore(req[r].doc)
             before == users[u].stats.bestScores
             after == users'[u].stats.bestScores
         IN /\ after[g] = Max(before[g], score)
            /\ \A h \in GameTypes \ {g} : after[h] = before[h]
            /\ users'[u].stats.averageScore =
                 Rational(after.rapidFire + after.conductor + after.tripleStep, 3)]_vars
\* Two sessions of one game type scored 150 and 40 (in either order): the
\* best score is 150 and averageScore is 150 / 3, not the mean of 150 and 40.
C14_Witness ==
  \E u \in UserIds, g \in GameTypes :
    /\ users[u].stats.totalGamesPlayed = 2
    /\ users[u].stats.bestScores[g] = 150
    /\ \A h \in GameTypes \ {g} : users[u].stats.bestScores[h] = 0
    /\ users[u].stats.averageScore = [num |-> 50, den |-> 1]
    /\ \E s \in SessionIds :
         /\ sessions[s].exists /\ sessions[s].isCompleted
         /\ sessions[s].gameType = g /\ sessions[s].performance.score = 40

\* C15: no achievement type occurs twice in a user's persisted achievements.
Occurrences(list, t) == Cardinality({i \in 1..Len(list) : list[i] = t})
C15_AchievementTypesUnique ==
  \A u \in UserIds :
    \A i, j \in 1..Len(users[u].achievements) :
      users[u].achievements[i] = users[u].achievements[j] => i = j

\* C16: when an end-session request of the user has returned success and no
\* request is in flight, the persisted achievements hold first_game exactly
\* once.
C16_FirstGameExactlyOnce ==
  \A r \in Requests :
    (Quiescent /\ Done(r) /\ req[r].status = StatusOk)
      => Occurrences(users[req[r].userId].achievements, "first_game") = 1

\* round(p / q) for integers p and q # 0
RoundRatio(p, q) == IF q < 0 THEN MathRound(-p, -q) ELSE MathRound(p, q)
NotFinite == {NaN, PosInfinity, NegInfinity}
CompareMetrics == {"sessions", "averageScore", "totalTime"}

\* C17: in a compare response, for each of sessions, averageScore
\* and totalTime, percentageChange is 0 when the period-2 value is 0, is
\* never NaN or Infinity, and otherwise is round((p1 - p2) / p2 * 100).
C17_PercentageChangeZeroOnlyAtZero ==
  reply.route = "compare" =>
    \A m \in CompareMetrics :
      LET c == reply.changes[m]
      IN /\ c.percentageChange \notin NotFinite
         /\ c.period2 = 0 => c.percentageChange = 0
         /\ c.period2 # 0 =>
              c.percentageChange = RoundRatio((c.period1 - c.period2) * 100, c.period2)

\* C18: an overview response has improvement 0 when fewer than 4 completed
\* sessions lie in the range; with n >= 4 sessions in start order, a first
\* half of floor(n / 2) sessions with score sum S1 # 0 and a second half with
\* score sum S2, improvement is round((S2/n2 - S1/n1) / (S1/n1) * 100).
InRange(timeRange) ==
  LET Within(x) == x.startTime >= clock - RangeDays(timeRange)
  IN SelectSeq(history, Within)
ExpectedImprovement(found) ==
  LET n == Len(found)
      n1 == n \div 2
      n2 == n - n1
      S1 == SumSeq([i \in 1..n1 |-> found[i].score])
      S2 == SumSeq([i \in 1..n2 |-> found[n1 + i].score])
  IN RoundRatio(100 * (S2 * n1 - S1 * n2), S1 * n2)
C18_ImprovementOfHalves ==
  [][(reply' # reply /\ reply'.route = "overview") =>
       LET found == InRange(reply'.timeRange)
       IN /\ Len(found) < 4 => reply'.improvement = 0
          /\ (Len(found) >= 4
              /\ SumSeq([i \in 1..(Len(found) \div 2) |-> found[i].score]) # 0)
               => reply'.improvement = ExpectedImprovement(found)]_vars
\* Scores 50, 60, 70, 80 in start order: improvement 36.
C18_Witness ==
  /\ reply.route = "overview"
  /\ [i \in 1..Len(history) |-> history[i].score] = <<50, 60, 70, 80>>
  /\ reply.totalSessions = 4
  /\ reply.improvement = 36

\* C19 (as stated): two analytics responses for the same gameType and
\* timeRange, with no session completed between them, are equal.
SameAnalyticsCall ==
  /\ reply.route = "analytics" /\ reply'.route = "analytics"
  /\ reply'.gameType = reply.gameType /\ reply'.timeRange = reply.timeRange
  /\ history' = history
C19_AnalyticsRepeatable ==
  [][SameAnalyticsCall => reply' = reply]_vars

\* C19 (amended): two analytics responses for the same gameType and
\* timeRange "all", with no session completed between them, are equal,
\* whatever time has passed between the calls.
C19_AnalyticsOfAllRepeatable ==
  [][(SameAnalyticsCall /\ reply.timeRange = "all") => reply' = reply]_vars
\* An analytics response for "all" that counts a session older than a week.
C19_Witness ==
  /\ reply.route = "analytics" /\ reply.timeRange = "all"
  /\ reply.totalSessions >= 1
  /\ \A i \in 1..Len(history) : history[i].startTime < clock - RangeDays("week")

\* C20: with at least one completed session in range and the feedback
\* collaborator unavailable (throwing, or never initialised), the insights
\* response is a success carrying the default feedback.
C20_InsightsSurviveFeedbackFailure ==
  (/\ reply.route = "insights"
   /\ reply.totalSessions >= 1
   /\ reply.feedback \in {"throws", "fallback"})
  => /\ reply.status = StatusOk
     /\ reply.content = "default"

\* C21: an end-session request naming a session that does not exist, or
\* that another user owns, is answered not-found at its first step and that
\* step changes no session record and no user; the request never completes
\* a session nor updates stats afterwards.
C21_NotFoundHasNoSideEffects ==
  [][\A r \in Requests :
       (/\ req[r].pc = "idle" /\ req'[r].pc # "idle"
        /\ \/ ~sessions[req'[r].sessionId].exists
           \/ sessions[req'[r].sessionId].userId # req'[r].userId)
       => /\ req'[r].pc = "done"
          /\ req'[r].status = StatusNotFound
          /\ ~req'[r].completed /\ ~req'[r].statsApplied
          /\ sessions' = sessions
          /\ users' = users]_vars
\* User u2 was refused the open session of u1, which is still open and untouched.
C21_Witness ==
  \E r \in Requests :
    /\ Done(r) /\ req[r].status = StatusNotFound /\ req[r].userId = "u2"
    /\ sessions[req[r].sessionId].exists
    /\ sessions[req[r].sessionId].userId = "u1"
    /\ ~sessions[req[r].sessionId].isCompleted
    /\ sessions[req[r].sessionId].performance = DefaultPerformance
    /\ users = [u \in Callers |-> DefaultUser]

\* C22: the score (and accuracy) end-session stores is the request's
\* performance.score (performance.accuracy), 0 when absent or falsy, whatever
\* raw game data the request carries; the statistics update is fed that
\* stored score.
C22_StoredScoreIsRequestScore ==
  [][\A r \in Requests :
       LET sid == req[r].sessionId
           u == req[r].userId
           g == req[r].doc.gameType
       IN /\ (req[r].pc = "found" /\ req'[r].pc = "analysis") =>
               /\ sessions'[sid].performance.score = OrZero(req'[r].body.score)
               /\ sessions'[sid].performance.accuracy = OrZero(req'[r].body.accuracy)
               /\ req'[r].doc.performance = sessions'[sid].performance
          /\ (req[r].pc = "update" /\ req'[r].statsApplied) =>
               /\ sessions[sid].performance.score = OrZero(req[r].body.score)
               /\ users'[u].stats.totalGamesPlayed = req[r].user.stats.totalGamesPlayed + 1
               /\ users'[u].stats.bestScores[g] =
                    Max(req[r].user.stats.bestScores[g], sessions[sid].performance.score)]_vars
\* A rapidFire request with 7 of 10 prompts answered and no score: score 0
\* is stored and fed to the statistics, not 70.
C22_Witness ==
  \E r \in Requests :
    /\ req[r].pc = "achievements" /\ req[r].statsApplied
    /\ req[r].data.present /\ req[r].data.gameType = "rapidFire"
    /\ req[r].data.totalPrompts = 10 /\ req[r].data.completedResponses = 7
    /\ req[r].body.score = Undefined
    /\ sessions[req[r].sessionId].performance.score = 0
    /\ users[req[r].userId].stats.bestScores.rapidFire = 0
    /\ users[req[r].userId].stats.totalGamesPlayed = 1

\* C23: every sub-analysis decodes the provider's text in three ordered tiers
\* and never throws: a text containing a parseable JSON object gives that
\* object; any other text gives the scalars found by the regular expressions,
\* 75 for a scalar not found; the fixed default is returned only when no
\* scalar can be extracted.
ContainedObjects(text) ==
  {m \in {SubSeq(text, i, j) : i, j \in 1..Len(text)} : JsonParse(m).ok}
ScalarFound(text) ==
  \E i, j \in 1..Len(text) :
    /\ i <= j
    /\ text[i] \in {"coherence", "adherence", "score"}
    /\ Digits(text[j]) # Undefined
C23_ThreeTierDecoding ==
  reply.route = "decode" =>
    /\ reply.result.kind # "throws"
    /\ reply.text # NullContent =>
         IF ContainedObjects(reply.text) # {}
         THEN \E m \in ContainedObjects(reply.text) : reply.result = ParsedObject(m)
         ELSE IF ScalarFound(reply.text)
              THEN reply.result.kind = "regex"
              ELSE reply.result.kind \in {"regex", "default"}

\* C24: once the account-deletion request has completed, no GameSession
\* record of that user exists.
C24_NoSessionOutlivesAccount ==
  account.pc = "done" =>
    \A s \in SessionIds : sessions[s].exists => sessions[s].userId # account.userId

\* C25: no user's streak counters ever leave 0, in the persisted record or in
\* a document a request holds, and no streak achievement is ever unlocked.
NoStreak(user) ==
  /\ user.stats.streaks = [current |-> 0, longest |-> 0]
  /\ ~HasAchievement(user, "streak_5")
  /\ ~HasAchievement(user, "streak_10")
C25_StreaksStayZero ==
  /\ \A u \in Callers : NoStreak(users[u])
  /\ \A r \in Requests : NoStreak(req[r].user)
\* Two games counted and an achievement unlocked, the streak still at 0.
C25_Witness ==
  \E u \in UserIds :
    /\ users[u].stats.totalGamesPlayed >= 2
    /\ HasAchievement(users[u], "first_game")
    /\ users[u].stats.streaks.current = 0
    /\ users[u].stats.streaks.longest = 0

\* C26: in an overview response the overall improvement and the improvement
\* of every game type that has sessions are finite integers.
C26_ImprovementsFinite ==
  reply.route = "overview" =>
    /\ reply.improvement \notin NotFinite
    /\ \A type \in GameTypes : reply.gameTypeImprovement[type] \notin NotFinite

\* C27: in a rapidFire analytics response over at least one session,
\* gameSpecificMetrics.responseRate is a finite integer between 0 and 100.
C27_ResponseRateInRange ==
  (reply.route = "analytics" /\ reply.gameType = "rapidFire" /\ reply.totalSessions > 0)
    => reply.responseRate \in 0..100

\* C28: a compare response at time now counts in period 1 the sessions
\* started in [now - len(period1), now) and in period 2 those started in
\* [now - len(period2), now - len(period1)), so no session is counted twice;
\* when period2 is not longer than period1, the period-2 metrics are all 0
\* and every percentageChange is 0.
PeriodLength(period) == IF period = "week" THEN 7 ELSE 30
StartedIn(from, before) ==
  {i \in 1..Len(history) : history[i].startTime >= from /\ history[i].startTime < before}
C28_CompareWindowsDisjoint ==
  [][(reply'.route = "compare" /\ clock' = clock /\ history' = history) =>
       LET len1 == PeriodLength(reply'.period1)
           len2 == PeriodLength(reply'.period2)
       IN /\ reply'.period1Metrics.sessions = Cardinality(StartedIn(clock - len1, clock))
          /\ reply'.period2Metrics.sessions =
               Cardinality(StartedIn(clock - len2, clock - len1))
          /\ reply'.period1Metrics.sessions + reply'.period2Metrics.sessions
               <= Len(history)
          /\ len2 <= len1 =>
               /\ reply'.period2Metrics =
                    [sessions |-> 0, averageScore |-> 0, bestScore |-> 0, totalTime |-> 0]
               /\ \A m \in CompareMetrics : reply'.changes[m].percentageChange = 0]_vars
\* Week against month with sessions in both windows.
C28_Witness ==
  /\ reply.route = "compare"
  /\ reply.period1 = "week" /\ reply.period2 = "month"
  /\ reply.period1Metrics.sessions >= 1
  /\ reply.period2Metrics.sessions >= 1
  /\ reply.period1Metrics.sessions + reply.period2Metrics.sessions = Len(history)

\* C29: in a statistics report over all game types, gameTypeBreakdown[type]
\* .bestScore is the highest score among the user's sessions of that type,
\* 0 when there are none.
ScoresOfType(type) ==
  {OrZero(history[i].score) : i \in {j \in 1..Len(history) : history[j].gameType = type}}
C29_BreakdownBestScorePerType ==
  (reply.route = "stats" /\ reply.totalSessions = Len(history)) =>
    \A type \in GameTypes :
      LET best == reply.gameTypeBreakdown[type].bestScore
      IN IF ScoresOfType(type) = {} THEN best = 0
         ELSE best \in ScoresOfType(type) /\ \A x \in ScoresOfType(type) : x <= best

\* C30: in an analytics response every session found is counted in exactly
\* one bucket, the one whose range contains its score: each bucket holds the
\* number of sessions with a score in its range, and the five counts add up
\* to totalSessions.  Stated on the responses for all game types and all
\* time, whose result set is every completed session.
ScoredWithin(lo, hi) ==
  Cardinality({i \in 1..Len(history) :
                 OrZero(history[i].score) >= lo /\ OrZero(history[i].score) <= hi})
C30_BucketsPartitionSessions ==
  (reply.route = "analytics" /\ reply.gameType = "" /\ reply.timeRange = "all") =>
    LET d == reply.scoreDistribution
    IN /\ d.b0to20 + d.b21to40 + d.b41to60 + d.b61to80 + d.b81to100
            = reply.totalSessions
       /\ d.b0to20 = ScoredWithin(0, 20)
       /\ d.b21to40 = ScoredWithin(21, 40)
       /\ d.b41to60 = ScoredWithin(41, 60)
       /\ d.b61to80 = ScoredWithin(61, 80)
       /\ d.b81to100 = ScoredWithin(81, 100)

====
